---- MODULE Spec2Model ----
(***************************************************************************)
(* Model of the quiz session controller (the QuizTaking React component)   *)
(* of chaboutiabderrahim/mybac.                                            *)
(*                                                                         *)
(* React state is modelled twice: `st` holds the latest state written by   *)
(* the setters, `view` holds the state captured by the last committed      *)
(* render.  Every handler and every effect is a closure of a render, so it *)
(* reads `view`; every setter writes `st`.  Updates issued from a promise  *)
(* continuation, a timeout or an effect are committed by a later Render    *)
(* step; updates issued from a click handler are committed synchronously   *)
(* at the end of that click (discrete event).                              *)
(***************************************************************************)
EXTENDS Integers, Sequences, FiniteSets, TLC

\* ------------------------------------------------------------------ bounds
\* Seconds of the countdown budget (the program uses 1800, scaled down).
TimeBudget == 3
\* Largest number of questions of a quiz returned by the record store.
MaxQuestions == 2
\* Largest number of handleSubmitQuiz invocations that pass the guard.
MaxSubmits == 2
\* Largest number of fetchQuizAttempt invocations (the load at mount and the
\* re-runs of the load effect).
MaxLoads == 2
\* Largest number of questions of a quiz handed to calculateScore directly.
MaxScoreLen == 2

\* ------------------------------------------------------- program constants
NumOptions == 4
DailyPoints == 25
OtherPoints == 8

AllLetters == <<"A", "B", "C", "D", "E", "F">>
\* String.fromCharCode(65 + index) for the four option buttons
Letters == {AllLetters[i] : i \in 1..NumOptions}

QuizTypes == {"daily", "practice"}
Undefined == "undefined"

VARIABLES
  st,          \* React state as last written by the setters
  view,        \* React state captured by the last committed render
  mounted,     \* the component is mounted
  navPending,  \* navigate('/quizzes') was called, route not yet re-rendered
  timer,       \* pending setTimeout: {the timeLeft it captured}, or {}
  loads,       \* fetchQuizAttempt invocations, in call order
  submits,     \* handleSubmitQuiz invocations that passed the guard
  timerCalls,  \* calls of handleSubmitQuiz made by the countdown effect
  scoreIn,     \* input handed to calculateScore (score specification)
  scoreOut,    \* its result: {} before the call, {score} after
  proxy        \* the gemini-chat request being served (proxy specification)

vars == <<st, view, mounted, navPending, timer, loads, submits, timerCalls,
          scoreIn, scoreOut, proxy>>

\* HTTP status codes of the gemini-chat responses
StatusOK == 200
StatusBadRequest == 400
StatusServerError == 500

\* ------------------------------------------------------------- data model
\* A question as the component reads it: id and correct_answer.
Question(i, c) == [id |-> i, correct_answer |-> c]

\* All question arrays of length n with ids 1..n.
QuestionsOfLen(n) ==
  {[j \in 1..n |-> Question(j, f[j])] : f \in [1..n -> Letters]}

\* quizData rows the record store may return; isArray tells whether
\* quizData.questions is an array.
QuizRows(maxLen) ==
  {[type |-> t, isArray |-> TRUE, questions |-> qs] :
     t \in QuizTypes, qs \in UNION {QuestionsOfLen(n) : n \in 0..maxLen}}
  \cup {[type |-> t, isArray |-> FALSE, questions |-> <<>>] : t \in QuizTypes}

\* The rows drawn in the session specification: question j has the correct
\* answer of the j-th option button (modulo the number of buttons).
SessionRows ==
  {r \in QuizRows(MaxQuestions) :
     \A j \in 1..Len(r.questions) :
        r.questions[j].correct_answer = AllLetters[((j - 1) % NumOptions) + 1]}

\* The option button clicked in the session specification: with the rows
\* above it is the correct answer of question 1 and a wrong one for the
\* others.
ClickedLetters == {"A"}

\* The quiz state: null, or the row's fields the component reads.
NoQuiz == [present |-> FALSE, type |-> "none"]
QuizOf(row) == [present |-> TRUE, type |-> row.type]

\* Array.isArray(quizData.questions) ? quizData.questions : []
AsQuestions(row) == IF row.isArray THEN row.questions ELSE <<>>

\* selectedAnswers[id], undefined when the key is absent
Lookup(S, id) == IF id \in DOMAIN S THEN S[id] ELSE Undefined

\* { ...prev, [questionId]: answer }
Assign(S, id, a) ==
  [x \in (DOMAIN S) \cup {id} |-> IF x = id THEN a ELSE S[x]]

\* useState initial values
InitialState ==
  [attempt |-> FALSE,
   quiz |-> NoQuiz,
   questions |-> <<>>,
   currentQuestionIndex |-> 0,
   selectedAnswers |-> <<>>,
   timeLeft |-> TimeBudget,
   isSubmitting |-> FALSE,
   loading |-> TRUE]

\* A setter called after unmount is ignored.
SetState(new) == IF mounted THEN new ELSE st

\* ---------------------------------------------------------- calculateScore
RECURSIVE CountCorrect(_, _, _)
\* the forEach loop over the first n questions
CountCorrect(qs, S, n) ==
  IF n = 0 THEN 0
  ELSE CountCorrect(qs, S, n - 1)
       + (IF Lookup(S, qs[n].id) = qs[n].correct_answer THEN 1 ELSE 0)

\* Mutant of pointsPerQuestion: the two values of the ternary swapped.
pointsPerQuestionSwapped(quiz) ==
  IF quiz.present /\ quiz.type = "daily" THEN OtherPoints ELSE DailyPoints

\* quiz?.type === 'daily' ? 25 : 8
pointsPerQuestion(quiz) ==
  IF quiz.present /\ quiz.type = "daily" THEN DailyPoints ELSE OtherPoints

calculateScore(qs, S, quiz) ==
  CountCorrect(qs, S, Len(qs)) * pointsPerQuestion(quiz)

\* ------------------------------------------------------------ what renders
ShowsSpinner(v) == v.loading
ShowsEmpty(v) == ~v.loading /\ (~v.quiz.present \/ Len(v.questions) = 0)
ShowsSession(v) == ~v.loading /\ v.quiz.present /\ Len(v.questions) > 0

\* ------------------------------------------------------- handleSubmitQuiz
\* Mutant of GuardBlocks: the guard test is inverted.
GuardBlocksWhenIdle(c) == ~c.isSubmitting

\* if (isSubmitting) return;  -- read from the closure of the render c
GuardBlocks(c) == c.isSubmitting

\* Mutant of LogEntry: the answer is passed without the || '' default.
LogEntryNoDefault(q, S) ==
  [questionId |-> q.id,
   studentAnswer |-> Lookup(S, q.id),
   correctAnswer |-> q.correct_answer,
   isCorrect |-> (Lookup(S, q.id) = q.correct_answer)]

\* The arguments of one trackQuizQuestion call:
\* studentAnswer = selectedAnswers[question.id] || '',
\* isCorrect = studentAnswer === question.correct_answer
LogEntry(q, S) ==
  LET studentAnswer ==
        IF Lookup(S, q.id) \in {Undefined, ""} THEN "" ELSE Lookup(S, q.id)
  IN [questionId |-> q.id,
      studentAnswer |-> studentAnswer,
      correctAnswer |-> q.correct_answer,
      isCorrect |-> (studentAnswer = q.correct_answer)]

\* The invocation up to its first await: score computed from the closure's
\* questions, selectedAnswers and quiz, and the update call issued.
NewInvocation(c, by) ==
  [pc |-> "awaitUpdate", by |-> by,
   questions |-> c.questions, answers |-> c.selectedAnswers, quiz |-> c.quiz,
   loading |-> c.loading,
   finalScore |-> calculateScore(c.questions, c.selectedAnswers, c.quiz),
   writes |-> 1, update |-> "pending", logs |-> 0, logged |-> <<>>,
   logFailures |-> 0,
   result |-> "pending", toast |-> "none", navigated |-> FALSE]

\* toast "Quiz completed!", navigate('/quizzes'), finally
Succeeded(inv) ==
  [inv EXCEPT !.pc = "done", !.result = "success",
              !.toast = "success", !.navigated = TRUE]

\* Mutant of Failed: the submit catch block navigates like the load one.
FailedAndNavigates(inv) ==
  [inv EXCEPT !.pc = "done", !.result = "failed", !.toast = "error",
              !.navigated = TRUE]

\* catch: toast "Failed to submit quiz", finally
Failed(inv) ==
  [inv EXCEPT !.pc = "done", !.result = "failed", !.toast = "error"]

\* Start of the for loop: the first trackQuizQuestion call, if any.
StartLogging(inv) ==
  IF Len(inv.questions) = 0 THEN Succeeded(inv)
  ELSE [inv EXCEPT !.pc = "awaitTrack", !.logs = 1,
                   !.logged = <<LogEntry(inv.questions[1], inv.answers)>>]

\* Mutant of AfterUpdate: the error of the update call is not thrown.
AfterUpdateNoThrow(inv, ok) ==
  StartLogging([inv EXCEPT !.update = IF ok THEN "ok" ELSE "error"])

\* The update call returned: if (updateError) throw updateError
AfterUpdate(inv, ok) ==
  IF ok THEN StartLogging([inv EXCEPT !.update = "ok"])
  ELSE Failed([inv EXCEPT !.update = "error"])

\* trackQuizQuestion: a failure of the log call is reported on the console
\* and swallowed, the returned promise resolves either way.
trackQuizQuestion(outcome) == "resolved"

\* Mutant of AfterLog: a failed log entry ends the loop in the catch block.
AfterLogAbortOnFailure(inv, outcome) ==
  IF outcome = "failed"
  THEN Failed([inv EXCEPT !.logFailures = @ + 1])
  ELSE IF inv.logs < Len(inv.questions)
       THEN [inv EXCEPT !.logs = @ + 1,
                        !.logged = Append(@, LogEntry(inv.questions[inv.logs + 1],
                                                      inv.answers))]
       ELSE Succeeded(inv)

\* One await of trackQuizQuestion returned.
AfterLog(inv, outcome) ==
  IF trackQuizQuestion(outcome) = "rejected" THEN Failed(inv)
  ELSE LET inv2 == [inv EXCEPT !.logFailures =
                       @ + (IF outcome = "failed" THEN 1 ELSE 0)]
       IN IF inv2.logs < Len(inv2.questions)
          THEN [inv2 EXCEPT !.logs = @ + 1,
                            !.logged = Append(@,
                               LogEntry(inv2.questions[inv2.logs + 1],
                                        inv2.answers))]
          ELSE Succeeded(inv2)

\* ------------------------------------------------------- fetchQuizAttempt
NewLoad ==
  [pc |-> "awaitAttempt", result |-> "pending", quizCalls |-> 0,
   toast |-> FALSE, navigated |-> FALSE, populated |-> FALSE]

\* Mutant of LoadFailed: the load catch block does not navigate.
LoadFailedNoNavigate(ld, why) ==
  [ld EXCEPT !.pc = "done", !.result = why, !.toast = TRUE]

\* catch: toast "Failed to load quiz", navigate('/quizzes'), finally
LoadFailed(ld, why) ==
  [ld EXCEPT !.pc = "done", !.result = why,
             !.toast = TRUE, !.navigated = TRUE]

\* The attempt query returned: if (attemptError) throw attemptError
AfterAttempt(ld, ok) ==
  IF ok THEN [ld EXCEPT !.pc = "awaitQuiz", !.quizCalls = @ + 1]
  ELSE LoadFailed(ld, "attemptError")

\* The quiz query returned: if (quizError) throw quizError
AfterQuiz(ld, ok) ==
  IF ok THEN [ld EXCEPT !.pc = "done", !.result = "ok", !.populated = TRUE]
  ELSE LoadFailed(ld, "quizError")

\* ------------------------------------------------------------ render commit
\* Mutant of CountdownDepsChanged: the effect has no dependency array.
CountdownDepsAlways(prev, next) == TRUE

\* The countdown effect's dependency array [timeLeft]
CountdownDepsChanged(prev, next) == prev.timeLeft # next.timeLeft

\* Mutant of ArmsTimer: the test is timeLeft >= 0.
ArmsTimerAtZero(s) == s.timeLeft >= 0

\* if (timeLeft > 0): the countdown effect arms the next timeout
ArmsTimer(s) == s.timeLeft > 0

\* Rendering the session reads questions[currentQuestionIndex].question_text:
\* with the index past the end the render throws and React unmounts the
\* tree.
RenderThrows(s) ==
  ShowsSession(s) /\ s.currentQuestionIndex >= Len(s.questions)

\* A render commits the pending state s (with the invocations subs and the
\* pending navigation nav as left by the handler that ran before it).  A
\* pending navigation replaces the route: the component unmounts and the
\* effect cleanup clears the timeout.  Otherwise the render captures s and,
\* when timeLeft changed, the countdown effect runs in the new closure: it
\* clears the old timeout and either arms a new one or calls
\* handleSubmitQuiz.
Commit(s, subs, nav) ==
  IF nav \/ RenderThrows(s)
  THEN /\ mounted' = FALSE
       /\ navPending' = FALSE
       /\ timer' = {}
       /\ st' = s
       /\ view' = view
       /\ submits' = subs
       /\ timerCalls' = timerCalls
  ELSE /\ mounted' = TRUE
       /\ navPending' = FALSE
       /\ view' = s
       /\ IF ~CountdownDepsChanged(view, s)
          THEN /\ timer' = timer
               /\ st' = s
               /\ submits' = subs
               /\ timerCalls' = timerCalls
          ELSE IF ArmsTimer(s)
          THEN /\ timer' = {s.timeLeft}
               /\ st' = s
               /\ submits' = subs
               /\ timerCalls' = timerCalls
          ELSE /\ timer' = {}
               /\ timerCalls' = timerCalls + 1
               /\ IF GuardBlocks(s)
                  THEN /\ st' = s
                       /\ submits' = subs
                  ELSE /\ Len(subs) < MaxSubmits
                       /\ st' = [s EXCEPT !.isSubmitting = TRUE]
                       /\ submits' = Append(subs, NewInvocation(s, "timer"))

\* React commits the updates queued by promise continuations, timeouts and
\* effects.
Render ==
  /\ mounted
  /\ navPending \/ st # view
  /\ Commit(st, submits, navPending)
  /\ UNCHANGED <<loads, scoreIn, scoreOut, proxy>>

\* The timeout armed by the countdown effect fires:
\* setTimeLeft(timeLeft - 1) with the timeLeft its render captured.
TimerFires ==
  /\ mounted
  /\ \E t \in timer :
       /\ st' = [st EXCEPT !.timeLeft = t - 1]
       /\ timer' = {}
  /\ UNCHANGED <<view, mounted, navPending, loads, submits, timerCalls,
                 scoreIn, scoreOut, proxy>>

\* --------------------------------------------------------------- loading
\* attemptId or user change while the component stays mounted: the render
\* that carries the new values runs the load effect again, which calls
\* fetchQuizAttempt, or navigate('/quizzes') when one of them is missing.
\* (A render with updates still pending is Render followed by this step.)
DepsChange(hasParams) ==
  /\ mounted /\ ~navPending /\ st = view
  /\ Len(loads) < MaxLoads
  /\ loads' = IF hasParams THEN Append(loads, NewLoad) ELSE loads
  /\ navPending' = ~hasParams
  /\ UNCHANGED <<st, view, mounted, timer, submits, timerCalls,
                 scoreIn, scoreOut, proxy>>

\* The quiz_attempts query of load i returns.
AttemptReturns(i, ok) ==
  /\ loads[i].pc = "awaitAttempt"
  /\ LET ld == AfterAttempt(loads[i], ok)
     IN /\ loads' = [loads EXCEPT ![i] = ld]
        /\ st' = SetState(IF ld.pc = "done"
                          THEN [st EXCEPT !.loading = FALSE]
                          ELSE [st EXCEPT !.attempt = TRUE])
        /\ navPending' = (navPending \/ (mounted /\ ld.navigated))
  /\ UNCHANGED <<view, mounted, timer, submits, timerCalls,
                 scoreIn, scoreOut, proxy>>

\* The quizzes query of load i returns (row is the quiz when ok).
QuizReturns(i, ok, row) ==
  /\ loads[i].pc = "awaitQuiz"
  /\ LET ld == AfterQuiz(loads[i], ok)
     IN /\ loads' = [loads EXCEPT ![i] = ld]
        /\ st' = SetState(IF ld.populated
                          THEN [st EXCEPT !.quiz = QuizOf(row),
                                          !.questions = AsQuestions(row),
                                          !.loading = FALSE]
                          ELSE [st EXCEPT !.loading = FALSE])
        /\ navPending' = (navPending \/ (mounted /\ ld.navigated))
  /\ UNCHANGED <<view, mounted, timer, submits, timerCalls,
                 scoreIn, scoreOut, proxy>>

\* ------------------------------------------------------------ user events
\* A click runs the handler of the committed render and React re-renders
\* synchronously before the next event.
currentQuestion == view.questions[view.currentQuestionIndex + 1]

\* An option button is clicked.
AnswerSelect(letter) ==
  /\ mounted /\ ShowsSession(view)
  /\ Commit([st EXCEPT !.selectedAnswers =
                          Assign(@, currentQuestion.id, letter)],
            submits, navPending)
  /\ UNCHANGED <<loads, scoreIn, scoreOut, proxy>>

\* handleNextQuestion
NextQuestion ==
  /\ mounted /\ ShowsSession(view)
  /\ IF view.currentQuestionIndex < Len(view.questions) - 1
     THEN Commit([st EXCEPT !.currentQuestionIndex =
                              view.currentQuestionIndex + 1],
                 submits, navPending)
     ELSE UNCHANGED <<st, view, mounted, navPending, timer, submits,
                      timerCalls>>
  /\ UNCHANGED <<loads, scoreIn, scoreOut, proxy>>

\* handlePreviousQuestion
PreviousQuestion ==
  /\ mounted /\ ShowsSession(view)
  /\ IF view.currentQuestionIndex > 0
     THEN Commit([st EXCEPT !.currentQuestionIndex =
                              view.currentQuestionIndex - 1],
                 submits, navPending)
     ELSE UNCHANGED <<st, view, mounted, navPending, timer, submits,
                      timerCalls>>
  /\ UNCHANGED <<loads, scoreIn, scoreOut, proxy>>

\* The Submit Quiz button (rendered on the last question) is clicked:
\* handleSubmitQuiz of the committed render runs up to its first await.
ClickSubmit ==
  /\ mounted /\ ShowsSession(view)
  /\ view.currentQuestionIndex = Len(view.questions) - 1
  /\ IF GuardBlocks(view)
     THEN UNCHANGED <<st, view, mounted, navPending, timer, submits,
                      timerCalls>>
     ELSE /\ Len(submits) < MaxSubmits
          /\ Commit([st EXCEPT !.isSubmitting = TRUE],
                    Append(submits, NewInvocation(view, "user")),
                    navPending)
  /\ UNCHANGED <<loads, scoreIn, scoreOut, proxy>>

\* The user leaves (Back to Quizzes, or the route is torn down).
Teardown ==
  /\ mounted
  /\ Commit(st, submits, TRUE)
  /\ UNCHANGED <<loads, scoreIn, scoreOut, proxy>>

\* ------------------------------------------------------------- submitting
\* Mutant of SubmitStep: no finally block, isSubmitting is left as it is.
SubmitStepNoFinally(i, inv) ==
  /\ submits' = [submits EXCEPT ![i] = inv]
  /\ st' = st
  /\ navPending' = (navPending \/ (mounted /\ inv.navigated))
  /\ UNCHANGED <<view, mounted, timer, loads, timerCalls, scoreIn, scoreOut, proxy>>

\* Effects of an invocation's step on the component: finally clears
\* isSubmitting, a success navigates.
SubmitStep(i, inv) ==
  /\ submits' = [submits EXCEPT ![i] = inv]
  /\ st' = SetState(IF inv.pc = "done"
                    THEN [st EXCEPT !.isSubmitting = FALSE]
                    ELSE st)
  /\ navPending' = (navPending \/ (mounted /\ inv.navigated))
  /\ UNCHANGED <<view, mounted, timer, loads, timerCalls, scoreIn, scoreOut, proxy>>

\* The quiz_attempts update of invocation i returns.
UpdateReturns(i, ok) ==
  /\ submits[i].pc = "awaitUpdate"
  /\ SubmitStep(i, AfterUpdate(submits[i], ok))

\* The pending trackQuizQuestion call of invocation i returns; outcome
\* tells whether the log entry was stored.
TrackReturns(i, outcome) ==
  /\ submits[i].pc = "awaitTrack"
  /\ SubmitStep(i, AfterLog(submits[i], outcome))

\* ------------------------------------------------------- gemini-chat proxy
\* A request as the handler reads it.  body tells whether req.json()
\* parses; question, subject and chapter are "missing", "empty" or "text";
\* apiKey tells whether GEMINI_API_KEY is configured; auth is the
\* Authorization header, "none" or "bearer".
Request(method, body, question, subject, chapter, apiKey, auth) ==
  [pc |-> "start", method |-> method, body |-> body, question |-> question,
   subject |-> subject, chapter |-> chapter, apiKey |-> apiKey, auth |-> auth,
   context |-> <<>>, geminiCalls |-> 0, upstream |-> "none",
   answer |-> "none", getUserCalls |-> 0, user |-> "none",
   insertCalls |-> 0, row |-> <<>>, insert |-> "none",
   status |-> 0, reply |-> "none"]

NoRequest == Request("none", "ok", "missing", "missing", "missing", FALSE, "none")

Requests ==
  {Request(m, b, q, sj, ch, k, a) :
     m \in {"OPTIONS", "POST"}, b \in {"ok", "malformed"},
     q \in {"missing", "empty", "text"},
     sj \in {"missing", "text"}, ch \in {"missing", "text"},
     k \in BOOLEAN, a \in {"none", "bearer"}}

\* new Response(..., { status })
Respond(p, status, reply) ==
  [p EXCEPT !.pc = "responded", !.status = status, !.reply = reply]

\* Mutant of QuestionMissing: only an absent question is rejected.
QuestionMissingOnlyAbsent(q) == q = "missing"

\* if (!question)
QuestionMissing(q) == q \in {"missing", "empty"}

\* subject || 'General', chapter || 'General' in the prompt
OrGeneral(x) == IF x \in {"missing", "empty"} THEN "General" ELSE x

\* subject || null, chapter || null in the stored row
OrNull(x) == IF x \in {"missing", "empty"} THEN "null" ELSE x

\* The handler up to its first external call.
OnRequest(p) ==
  IF p.method = "OPTIONS" THEN Respond(p, StatusOK, "preflight")
  ELSE IF p.body = "malformed" THEN Respond(p, StatusServerError, "error")
  ELSE IF QuestionMissing(p.question)
       THEN Respond(p, StatusBadRequest, "error")
  ELSE IF ~p.apiKey THEN Respond(p, StatusServerError, "error")
  ELSE [p EXCEPT !.pc = "awaitGemini", !.geminiCalls = @ + 1,
                 !.context = <<OrGeneral(p.subject), OrGeneral(p.chapter)>>]

\* The completion call returned: the fetch rejected, the response was not
\* ok, its body was not JSON, or it carried a text or none.
OnGemini(p, outcome) ==
  IF outcome \in {"rejected", "notOk", "badJson"}
  THEN Respond([p EXCEPT !.upstream = outcome], StatusServerError, "error")
  ELSE LET p2 == [p EXCEPT !.upstream = outcome,
                           !.answer = IF outcome = "text" THEN "text"
                                      ELSE "fallback"]
       IN IF p2.auth = "none" THEN Respond(p2, StatusOK, "answer")
          ELSE [p2 EXCEPT !.pc = "awaitUser", !.getUserCalls = @ + 1]

\* supabase.auth.getUser(token) returned a user or null.
OnGetUser(p, user) ==
  IF user = "user"
  THEN [p EXCEPT !.pc = "awaitInsert", !.user = user, !.insertCalls = @ + 1,
                 !.row = <<p.question, p.answer,
                           OrNull(p.subject), OrNull(p.chapter)>>]
  ELSE Respond([p EXCEPT !.user = user], StatusOK, "answer")

\* Mutant of OnInsert: an insert error is thrown into the outer catch.
OnInsertThrows(p, outcome) ==
  IF outcome = "error"
  THEN Respond([p EXCEPT !.insert = outcome], StatusServerError, "error")
  ELSE Respond([p EXCEPT !.insert = outcome], StatusOK, "answer")

\* The insert returned: an error is only logged.
OnInsert(p, outcome) == Respond([p EXCEPT !.insert = outcome], StatusOK, "answer")

SessionIdle ==
  UNCHANGED <<st, view, mounted, navPending, timer, loads, submits,
              timerCalls, scoreIn, scoreOut>>

Receive ==
  /\ proxy.pc = "start"
  /\ proxy' = OnRequest(proxy)
  /\ SessionIdle

GeminiReturns(outcome) ==
  /\ proxy.pc = "awaitGemini"
  /\ proxy' = OnGemini(proxy, outcome)
  /\ SessionIdle

GetUserReturns(user) ==
  /\ proxy.pc = "awaitUser"
  /\ proxy' = OnGetUser(proxy, user)
  /\ SessionIdle

InsertReturns(outcome) ==
  /\ proxy.pc = "awaitInsert"
  /\ proxy' = OnInsert(proxy, outcome)
  /\ SessionIdle

\* ---------------------------------------------------------- specification
NoScoreInput == [questions |-> <<>>, selectedAnswers |-> <<>>, quiz |-> NoQuiz]

\* After mount: the first render is committed and both effects have run.
\* The load effect called fetchQuizAttempt, or navigate('/quizzes') when
\* attemptId or user is missing; the countdown effect armed the timeout.
Init ==
  /\ st = InitialState
  /\ view = InitialState
  /\ mounted = TRUE
  /\ timer = {TimeBudget}
  /\ submits = <<>>
  /\ timerCalls = 0
  /\ \E hasParams \in BOOLEAN :
       /\ loads = IF hasParams THEN <<NewLoad>> ELSE <<>>
       /\ navPending = ~hasParams
  /\ scoreIn = NoScoreInput
  /\ scoreOut = {}
  /\ proxy = NoRequest

Next ==
  \/ Render
  \/ TimerFires
  \/ \E i \in DOMAIN loads, ok \in BOOLEAN : AttemptReturns(i, ok)
  \/ \E i \in DOMAIN loads, ok \in BOOLEAN, row \in SessionRows :
       QuizReturns(i, ok, row)
  \/ \E letter \in ClickedLetters : AnswerSelect(letter)
  \/ NextQuestion
  \/ PreviousQuestion
  \/ ClickSubmit
  \/ Teardown
  \/ \E i \in DOMAIN submits, ok \in BOOLEAN : UpdateReturns(i, ok)
  \/ \E i \in DOMAIN submits, outcome \in {"ok", "failed"} :
       TrackReturns(i, outcome)

Spec == Init /\ [][Next]_vars

\* The event loop is fair: an armed timeout fires, React commits queued
\* updates, and every pending request of a submit sequence settles.
Fairness ==
  /\ WF_vars(Render)
  /\ WF_vars(TimerFires)
  /\ \A i \in 1..MaxSubmits :
       /\ WF_vars(\E ok \in BOOLEAN : i \in DOMAIN submits /\ UpdateReturns(i, ok))
       /\ WF_vars(\E outcome \in {"ok", "failed"} :
                    i \in DOMAIN submits /\ TrackReturns(i, outcome))

\* The session of a user who works through the questions front to back
\* (every step of Next except handlePreviousQuestion), with a fair event
\* loop.
NextLive ==
  \/ Render
  \/ TimerFires
  \/ \E i \in DOMAIN loads, ok \in BOOLEAN : AttemptReturns(i, ok)
  \/ \E i \in DOMAIN loads, ok \in BOOLEAN, row \in SessionRows :
       QuizReturns(i, ok, row)
  \/ \E letter \in ClickedLetters : AnswerSelect(letter)
  \/ NextQuestion
  \/ ClickSubmit
  \/ Teardown
  \/ \E i \in DOMAIN submits, ok \in BOOLEAN : UpdateReturns(i, ok)
  \/ \E i \in DOMAIN submits, outcome \in {"ok", "failed"} :
       TrackReturns(i, outcome)

SpecLive == Init /\ [][NextLive]_vars /\ Fairness

\* The session with re-runs of the load effect.
NextReload ==
  \/ Next
  \/ \E hasParams \in BOOLEAN : DepsChange(hasParams)

SpecReload == Init /\ [][NextReload]_vars

\* ------------------------------------------------- score specification
\* calculateScore applied to arbitrary questions, selections and quiz: the
\* selection may miss questions and may hold a key of no question.
ScoreInputs ==
  {[questions |-> qs, selectedAnswers |-> S, quiz |-> q] :
     qs \in UNION {QuestionsOfLen(n) : n \in 0..MaxScoreLen},
     S \in UNION {[K -> Letters] : K \in SUBSET (1..(MaxScoreLen + 1))},
     q \in {NoQuiz} \cup {[present |-> TRUE, type |-> t] : t \in QuizTypes}}

InitScore ==
  /\ st = InitialState
  /\ view = InitialState
  /\ mounted = TRUE
  /\ navPending = FALSE
  /\ timer = {TimeBudget}
  /\ loads = <<>>
  /\ submits = <<>>
  /\ timerCalls = 0
  /\ scoreIn \in ScoreInputs
  /\ scoreOut = {}
  /\ proxy = NoRequest

ApplyScore ==
  /\ scoreOut = {}
  /\ scoreOut' = {calculateScore(scoreIn.questions, scoreIn.selectedAnswers,
                                 scoreIn.quiz)}
  /\ UNCHANGED <<st, view, mounted, navPending, timer, loads, submits,
                 timerCalls, scoreIn, proxy>>

NextScore == ApplyScore

SpecScore == InitScore /\ [][NextScore]_vars

\* ------------------------------------------------- proxy specification
InitProxy ==
  /\ st = InitialState
  /\ view = InitialState
  /\ mounted = TRUE
  /\ navPending = FALSE
  /\ timer = {TimeBudget}
  /\ loads = <<>>
  /\ submits = <<>>
  /\ timerCalls = 0
  /\ scoreIn = NoScoreInput
  /\ scoreOut = {}
  /\ proxy \in Requests

NextProxy ==
  \/ Receive
  \/ \E outcome \in {"rejected", "notOk", "badJson", "text", "noText"} :
       GeminiReturns(outcome)
  \/ \E user \in {"user", "null"} : GetUserReturns(user)
  \/ \E outcome \in {"ok", "error"} : InsertReturns(outcome)

SpecProxy == InitProxy /\ [][NextProxy]_vars

\* ------------------------------------------------------------ observations
RECURSIVE SumWrites(_, _)
\* update calls issued by the first n invocations (all of them, or only
\* those whose submit sequence is still in progress)
SumWrites(n, onlyInProgress) ==
  IF n = 0 THEN 0
  ELSE SumWrites(n - 1, onlyInProgress)
       + (IF onlyInProgress /\ submits[n].pc = "done" THEN 0
          ELSE submits[n].writes)

UpdateCalls == SumWrites(Len(submits), FALSE)
UpdateCallsInProgress == SumWrites(Len(submits), TRUE)

\* The states of the session controller
Loading == mounted /\ view.loading
Ready == mounted /\ ShowsSession(view) /\ ~st.isSubmitting
Submitting == \E i \in DOMAIN submits : submits[i].pc # "done"
Terminated == ~mounted

FailedLoads == {i \in DOMAIN loads :
                  loads[i].result \in {"attemptError", "quizError"}}
FailedSubmits == {i \in DOMAIN submits : submits[i].update = "error"}

\* ------------------------------------------------------------------ claims

\* C1: a submit requested while another submit is in progress is a no-op:
\* the submits in progress have issued the score-persistence write once.
C1_ReentrantSubmitWritesOnce == UpdateCallsInProgress <= 1

\* C2: over the lifetime of a session the score-persistence write is issued
\* at most once.
C2_AtMostOneWrite == UpdateCalls <= 1

\* C3: the countdown effect calls handleSubmitQuiz exactly once: no call
\* before a render with timeLeft = 0 is committed, one call when it is, and
\* no further call while timeLeft stays 0.
C3_TimerSubmitsExactlyOnce ==
  /\ view.timeLeft > 0 => timerCalls = 0
  /\ view.timeLeft = 0 => timerCalls = 1

\* C3 witness: the countdown reached zero in a rendered session, the submit
\* it triggered has ended (its update failed) and the session is still
\* mounted with timeLeft = 0.
C3_Witness ==
  /\ mounted /\ ShowsSession(view) /\ view.timeLeft = 0
  /\ st = view /\ ~view.isSubmitting
  /\ timerCalls = 1
  /\ \E i \in DOMAIN submits :
       submits[i].by = "timer" /\ submits[i].pc = "done"

\* C4: calculateScore returns the number of questions whose selection
\* equals the correct answer, times 25 for a daily quiz and 8 otherwise.
C4_ScoreFormula ==
  scoreOut # {} =>
    scoreOut =
      {Cardinality({j \in 1..Len(scoreIn.questions) :
           /\ scoreIn.questions[j].id \in DOMAIN scoreIn.selectedAnswers
           /\ scoreIn.selectedAnswers[scoreIn.questions[j].id]
                = scoreIn.questions[j].correct_answer})
       * (IF scoreIn.quiz.present /\ scoreIn.quiz.type = "daily"
          THEN 25 ELSE 8)}

\* C4 witness: a daily quiz scored with one question answered correctly,
\* one answered wrongly or not at all, and a selection key of no question.
C4_Witness ==
  /\ scoreOut = {25}
  /\ scoreIn.quiz.type = "daily"
  /\ Len(scoreIn.questions) = 2
  /\ (MaxScoreLen + 1) \in DOMAIN scoreIn.selectedAnswers

\* C5: a submit with a failed outcome log is not aborted: it keeps its
\* single write, goes on logging, and ends with every question logged, the
\* success confirmation and the navigation away.
C5_LogFailureIsBestEffort ==
  \A i \in DOMAIN submits :
    submits[i].logFailures > 0 =>
      /\ submits[i].writes = 1
      /\ submits[i].update = "ok"
      /\ \/ submits[i].pc = "awaitTrack"
         \/ /\ submits[i].pc = "done"
            /\ submits[i].result = "success"
            /\ submits[i].logs = Len(submits[i].questions)
            /\ submits[i].toast = "success"
            /\ submits[i].navigated

\* C5 witness: a finished submit of a two-question quiz in which every
\* outcome log failed, the first one included.
C5_Witness ==
  \E i \in DOMAIN submits :
    /\ submits[i].pc = "done"
    /\ Len(submits[i].questions) >= 2
    /\ submits[i].logFailures = Len(submits[i].questions)

\* C6: a submit whose update call returned an error has ended, logged no
\* outcome, showed the failure notification and not the confirmation, and
\* issued its write only once.
C6_UpdateFailureIsFatal ==
  \A i \in FailedSubmits :
    /\ submits[i].pc = "done"
    /\ submits[i].result = "failed"
    /\ submits[i].logs = 0
    /\ submits[i].toast = "error"
    /\ submits[i].writes = 1

\* C6 witness: the update call of a submit of a non-empty quiz failed.
C6_Witness ==
  \E i \in FailedSubmits : Len(submits[i].questions) > 0

C8_CountdownOnlyInReady ==
  [][st'.timeLeft # st.timeLeft => Ready]_vars

\* C9: once a load has returned a quiz without questions, an error is shown
\* and navigation away is signalled, and no submit is ever started.
C9_EmptyQuizRefused ==
  (st.quiz.present /\ Len(st.questions) = 0) =>
    /\ \E i \in DOMAIN loads : loads[i].toast /\ loads[i].navigated
    /\ ~ShowsSession(view)
    /\ submits = <<>>

\* C10: a failed load has ended without populating quiz or questions, has
\* shown the error notification and signalled navigation away (the session
\* is unmounted or about to be), and a load that failed on the attempt
\* never called the quiz query; with no successful load, quiz and questions
\* are still empty.
C10_LoadFailureTerminates ==
  /\ \A i \in FailedLoads :
       /\ loads[i].pc = "done"
       /\ ~loads[i].populated
       /\ loads[i].toast
       /\ loads[i].navigated
       /\ navPending \/ Terminated
       /\ loads[i].result = "attemptError" => loads[i].quizCalls = 0
  /\ (\A i \in DOMAIN loads : loads[i].result # "ok") =>
       /\ ~st.quiz.present /\ st.questions = <<>>
       /\ ~view.quiz.present /\ view.questions = <<>>

\* C10 witness: the attempt query failed and the session was left.
C10_Witness ==
  /\ Terminated
  /\ \E i \in FailedLoads : loads[i].result = "attemptError"


\* The ids of the questions of the loaded quiz
QuestionIds(v) == {v.questions[j].id : j \in 1..Len(v.questions)}

\* A fetchQuizAttempt invocation ends successfully in this step.
LoadSucceeds ==
  \E i \in DOMAIN loads : loads[i].result # "ok" /\ loads'[i].result = "ok"

\* C11: a load that succeeds on the mounted component leaves the selection
\* mapping empty and the countdown at its full budget.
C11_LoadResetsSelectionAndCountdown ==
  [][(mounted /\ LoadSucceeds) =>
       (st'.selectedAnswers = <<>> /\ st'.timeLeft = TimeBudget)]_vars

\* C12: in Ready the cursor is an index of the loaded questions;
\* handleNextQuestion at the last index and handlePreviousQuestion at index 0
\* change nothing, and otherwise they move the cursor by one.
C12_CursorClamped ==
  /\ [](mounted /\ ShowsSession(st) /\ ~st.isSubmitting =>
          st.currentQuestionIndex \in 0..(Len(st.questions) - 1))
  /\ [][NextQuestion =>
          IF view.currentQuestionIndex = Len(view.questions) - 1
          THEN UNCHANGED vars
          ELSE st'.currentQuestionIndex = st.currentQuestionIndex + 1]_vars
  /\ [][PreviousQuestion =>
          IF view.currentQuestionIndex = 0
          THEN UNCHANGED vars
          ELSE st'.currentQuestionIndex = st.currentQuestionIndex - 1]_vars

\* C13: every key of the selection mapping is the id of a question of the
\* loaded quiz and every value is an option letter.
C13_SelectionKeysAreQuestionIds ==
  /\ DOMAIN st.selectedAnswers \subseteq QuestionIds(st)
  /\ \A id \in DOMAIN st.selectedAnswers : st.selectedAnswers[id] \in Letters


\* C14: the countdown stays within 0..TimeBudget, no step increases it and
\* a step that changes it lowers it by exactly one.
C14_CountdownNonIncreasing ==
  /\ [](st.timeLeft \in 0..TimeBudget)
  /\ [][st'.timeLeft <= st.timeLeft
        /\ (st'.timeLeft # st.timeLeft => st'.timeLeft = st.timeLeft - 1)]_vars

\* C14 witness: the countdown of a rendered session has gone all the way
\* down to zero.
C14_Witness ==
  mounted /\ ShowsSession(view) /\ st.timeLeft = 0 /\ view.timeLeft = 0

\* C18: every handleSubmitQuiz invocation that issued the update call ran
\* in the closure of a rendered session: load ended, quiz present, at least
\* one question.
C18_WriteOnlyFromReady ==
  \A i \in DOMAIN submits :
    /\ ~submits[i].loading
    /\ submits[i].quiz.present
    /\ Len(submits[i].questions) > 0


\* C15: in every submit the update call comes before any outcome log; a
\* submit shows the confirmation only after one log per question, in order,
\* each with the student's answer ("" if unanswered) and a flag that is true
\* exactly when that answer is the correct one; it navigates only with the
\* confirmation; and a submit whose update succeeded ends that way.  The
\* score sent is the number of correct selections times the point value.
C15_SuccessfulSubmitOrder ==
  \A i \in DOMAIN submits :
    LET inv == submits[i]
        qs == inv.questions
        answered(j) == qs[j].id \in DOMAIN inv.answers
    IN /\ inv.writes = 1
       /\ inv.finalScore =
            Cardinality({j \in 1..Len(qs) :
                           answered(j)
                           /\ inv.answers[qs[j].id] = qs[j].correct_answer})
            * (IF inv.quiz.present /\ inv.quiz.type = "daily" THEN 25 ELSE 8)
       /\ Len(inv.logged) > 0 => inv.update = "ok"
       /\ Len(inv.logged) <= Len(qs)
       /\ \A j \in 1..Len(inv.logged) :
            /\ inv.logged[j].questionId = qs[j].id
            /\ inv.logged[j].correctAnswer = qs[j].correct_answer
            /\ inv.logged[j].studentAnswer =
                 (IF answered(j) THEN inv.answers[qs[j].id] ELSE "")
            /\ inv.logged[j].isCorrect =
                 (answered(j) /\ inv.answers[qs[j].id] = qs[j].correct_answer)
       /\ inv.toast = "success" =>
            inv.update = "ok" /\ Len(inv.logged) = Len(qs)
       /\ inv.navigated => inv.toast = "success"
       /\ (inv.update = "ok" /\ inv.pc = "done") =>
            inv.toast = "success" /\ inv.navigated

\* C15 witness: a two-question quiz submitted with no selection has ended
\* with score 0, two logs with the empty answer, and the confirmation.
C15_Witness ==
  \E i \in DOMAIN submits :
    /\ submits[i].pc = "done" /\ submits[i].toast = "success"
    /\ Len(submits[i].questions) = 2
    /\ submits[i].answers = <<>>
    /\ submits[i].finalScore = 0
    /\ Len(submits[i].logged) = 2
    /\ submits[i].logged[1].studentAnswer = ""


\* C16: a request whose question is missing or empty is answered with 400
\* without any external call; a failed completion call is answered with
\* 500; the completion service is called only for a non-empty question.
C16_EmptyQuestionRejectedFirst ==
  /\ (proxy.pc = "responded" /\ proxy.method = "POST" /\ proxy.body = "ok"
      /\ proxy.question \in {"missing", "empty"}) =>
       /\ proxy.status = 400
       /\ proxy.reply = "error"
       /\ proxy.geminiCalls = 0
       /\ proxy.getUserCalls = 0
       /\ proxy.insertCalls = 0
  /\ proxy.geminiCalls > 0 => proxy.question = "text"
  /\ proxy.upstream \in {"rejected", "notOk", "badJson"} =>
       proxy.status = 500 /\ proxy.reply = "error"

\* C16 witness: a request with the empty question has been answered.
C16_Witness ==
  /\ proxy.pc = "responded" /\ proxy.method = "POST" /\ proxy.body = "ok"
  /\ proxy.question = "empty" /\ proxy.apiKey /\ proxy.auth = "bearer"

\* C17: the pair is inserted only with an Authorization header that
\* resolved to a user, and once the completion call delivered an answer
\* the response is the success response with that answer, whatever
\* getUser and the insert returned.
C17_PersistenceIsBestEffort ==
  /\ proxy.insertCalls > 0 =>
       proxy.auth = "bearer" /\ proxy.user = "user" /\ proxy.answer # "none"
  /\ proxy.insertCalls <= 1
  /\ (proxy.pc = "responded" /\ proxy.answer # "none") =>
       proxy.status = 200 /\ proxy.reply = "answer"

\* C17 witness: the insert failed and the request has been answered.
C17_Witness ==
  proxy.pc = "responded" /\ proxy.insert = "error"


\* C19: under fair scheduling, a session that reaches Ready eventually
\* issues the quiz_attempts update or is torn down.
C19_ReadyLeadsToWrite ==
  Ready ~> (UpdateCalls >= 1 \/ ~mounted)

\* C19 witness: the countdown expired in a displayed session whose user
\* never selected an answer or pressed submit, and the timer issued the
\* update.
C19_Witness ==
  /\ mounted /\ Len(submits) = 1
  /\ submits[1].by = "timer" /\ submits[1].answers = <<>>
  /\ ~submits[1].loading /\ Len(submits[1].questions) > 0
  /\ view.currentQuestionIndex = 0


\* submit sequences that have not finished
InProgress == {i \in DOMAIN submits : submits[i].pc # "done"}

\* C20: under fair scheduling every submit sequence that passed the guard
\* ends; the step that ends it clears isSubmitting, whether it ended in
\* success, in an update failure or after a failed outcome log; and with no
\* sequence in progress the flag of the mounted component is clear.
C20_SubmitEndsAndClearsFlag ==
  /\ \A i \in 1..MaxSubmits : (i \in InProgress) ~> (i \notin InProgress)
  /\ [][\A i \in InProgress :
          (submits'[i].pc = "done" /\ mounted) => ~st'.isSubmitting]_vars
  /\ []((mounted /\ InProgress = {}) => ~st.isSubmitting)

\* C20 witness: one sequence ended in an update failure, a later one in
\* success although an outcome log failed, and the flag is clear.
C20_Witness ==
  /\ mounted /\ ~st.isSubmitting /\ InProgress = {}
  /\ \E i, j \in DOMAIN submits :
       /\ submits[i].result = "failed"
       /\ submits[j].result = "success" /\ submits[j].logFailures > 0

====
